---- MODULE Spec2Model ----
(***************************************************************************)
(* State-machine model of sfilipov/learn-rust-ds.                          *)
(*                                                                         *)
(*  - avl_vec::Tree    : arena backed AVL tree (src/src/avl_vec.rs)        *)
(*  - binary_tree::Tree: plain unbalanced search tree                      *)
(*                       (src/src/binary_tree.rs)                          *)
(*  - heapq::HeapQ     : binary max-heap on a Vec (src/src/heapq.rs)       *)
(*                                                                         *)
(* Option<usize> is an integer: None is -1, Some(i) is i.  The slot table  *)
(* `items` is a function over 0..n-1, as a Vec is indexed.  A panic        *)
(* (unwrap_occupied on a Free slot, unreachable!, expect, an index out of  *)
(* range, an arithmetic underflow) sets the `panic` field of the tree and  *)
(* the program takes no further step.                                      *)
(***************************************************************************)
EXTENDS Integers, Sequences, FiniteSets, TLC

\* ------------------------------------------------------------- bounds
\* Values of the element type offered to the general specification Spec.
NumValues == 4
\* Slot-table capacity of Spec (Vec growth is capped here).
MaxSlots == 4
\* Values offered to the wide specification SpecWide, and its slot capacity.
NumWide == 5
\* Successful inserts in a run of SpecWide.
MaxWideInserts == 6
\* Successful removals in a run of SpecWide.
MaxWideRemoves == 2
\* Values 0 .. MaxAsc-1 are inserted in ascending order by SpecAsc.
MaxAsc == 127
\* Heap cells of the binary_tree model, and successful removals in SpecBT.
MaxBtNodes == 4
MaxBtRemoves == 2
\* heapq: the values pushed and the capacity the Vec is allowed to reach.
NumHq == 3
MaxHqLen == 5

None == -1
\* The link a reading helper yields when it dereferenced a slot that is not
\* Occupied: the program has panicked.
Bad == -2

Values == 0 .. (NumValues - 1)

\* ------------------------------------------------------ avl_vec: arena
Tree_new == [items |-> <<>>, head_free |-> None, root |-> None, len |-> 0,
             panic |-> FALSE]

Node_new(value) ==
    [tag |-> "Occupied", value |-> value, height |-> 0,
     parent |-> None, left |-> None, right |-> None]

Slot_Free_unlinked(next_free) == [tag |-> "Free", next_free |-> None]

Slot_Free(next_free) == [tag |-> "Free", next_free |-> next_free]

\* What a read of a slot that is not Occupied leaves the caller with: nothing
\* the caller goes on to use, since the panic ends the call.
PoisonNode ==
    [tag |-> "Poison", value |-> 0, height |-> 0,
     parent |-> None, left |-> None, right |-> None]

ItemsLen(t) == Cardinality(DOMAIN t.items)

InRange(t, i) == i \in DOMAIN t.items

Occupied(t, i) == InRange(t, i) /\ t.items[i].tag = "Occupied"

Abort(t) == [t EXCEPT !.panic = TRUE]

unwrap_occupied(t, index) ==
    IF Occupied(t, index) THEN t.items[index] ELSE PoisonNode

\* with_occupied_mut(index, |n| n.field = val)
with_occupied_mut(t, index, field, val) ==
    IF t.panic THEN t
    ELSE IF Occupied(t, index)
         THEN [t EXCEPT !.items[index][field] = val]
         ELSE Abort(t)

cmp(a, b) == IF a < b THEN "Less" ELSE IF a > b THEN "Greater" ELSE "Equal"

VecPush(items, slot) ==
    LET n == Cardinality(DOMAIN items)
    IN  [i \in 0 .. n |-> IF i < n THEN items[i] ELSE slot]

insert_node_no_pop(t, value, parent) ==
    LET node == [Node_new(value) EXCEPT !.parent = parent]
    IN  IF t.head_free # None
        THEN IF InRange(t, t.head_free) /\ t.items[t.head_free].tag = "Free"
             THEN [t |-> [t EXCEPT !.items[t.head_free] = node],
                   index |-> t.head_free]
             ELSE [t |-> Abort(t), index |-> Bad]
        ELSE [t |-> [t EXCEPT !.items = VecPush(t.items, node)],
              index |-> ItemsLen(t)]

insert_node_always_push(t, value, parent) ==
    LET node == [Node_new(value) EXCEPT !.parent = parent]
    IN  [t |-> [t EXCEPT !.items = VecPush(t.items, node)],
         index |-> ItemsLen(t)]

insert_node(t, value, parent) ==
    LET node == [Node_new(value) EXCEPT !.parent = parent]
    IN  IF t.head_free # None
        THEN IF InRange(t, t.head_free) /\ t.items[t.head_free].tag = "Free"
             THEN [t |-> [t EXCEPT !.head_free = t.items[t.head_free].next_free,
                                   !.items[t.head_free] = node],
                   index |-> t.head_free]
             ELSE [t |-> Abort(t), index |-> Bad]
        ELSE [t |-> [t EXCEPT !.items = VecPush(t.items, node)],
              index |-> ItemsLen(t)]

remove_node_from_arena(t, index) ==
    IF t.panic THEN [t |-> t, value |-> None]
    ELSE IF ~InRange(t, index) THEN [t |-> Abort(t), value |-> None]
    ELSE LET slot == t.items[index]
             t1 == [t EXCEPT !.items[index] = Slot_Free(t.head_free),
                             !.head_free = index]
         IN  IF slot.tag = "Occupied"
             THEN [t |-> t1, value |-> slot.value]
             ELSE [t |-> Abort(t1), value |-> None]

\* ----------------------------------------------------- avl_vec: search
RECURSIVE find_closest_loop(_, _, _, _)
find_closest_loop(t, value, prev, cur) ==
    IF cur = None THEN prev
    ELSE IF ~Occupied(t, cur) THEN Bad
    ELSE LET node == t.items[cur]
             ord == cmp(value, node.value)
         IN  IF ord = "Less" THEN find_closest_loop(t, value, cur, node.left)
             ELSE IF ord = "Greater"
                  THEN find_closest_loop(t, value, cur, node.right)
                  ELSE cur

find_closest(t, value) == find_closest_loop(t, value, None, t.root)

contains_at(t, value, closest) ==
    IF closest = Bad THEN [t |-> Abort(t), ret |-> FALSE]
    ELSE IF closest # None
         THEN [t |-> t,
               ret |-> cmp(value, unwrap_occupied(t, closest).value) = "Equal"]
         ELSE [t |-> t, ret |-> FALSE]

contains(t, value) == contains_at(t, value, find_closest(t, value))

\* ---------------------------------------------------- avl_vec: heights
link_height_zero(t, link) ==
    IF link = None THEN 0 ELSE unwrap_occupied(t, link).height

link_height(t, link) ==
    IF link = None THEN -1 ELSE unwrap_occupied(t, link).height

Max(a, b) == IF a >= b THEN a ELSE b

\* A link the code is about to dereference for its node and both children.
Readable(t, link) ==
    \/ link = None
    \/ /\ Occupied(t, link)
       /\ t.items[link].left = None \/ Occupied(t, t.items[link].left)
       /\ t.items[link].right = None \/ Occupied(t, t.items[link].right)

balance_factor(t, link) ==
    IF link # None
    THEN LET node == unwrap_occupied(t, link)
         IN  link_height(t, node.left) - link_height(t, node.right)
    ELSE 0

update_height(t, index) ==
    IF t.panic THEN t
    ELSE IF ~Readable(t, index) THEN Abort(t)
    ELSE LET node == t.items[index]
             left_height == link_height(t, node.left)
             right_height == link_height(t, node.right)
         IN  [t EXCEPT !.items[index].height = 1 + Max(left_height, right_height)]

RECURSIVE update_ancestor_heights(_, _)
\* cur = self.unwrap_occupied(index).parent, and the next round of the loop.
update_ancestor_heights_up(t, index) ==
    IF t.panic THEN t
    ELSE IF ~Occupied(t, index) THEN Abort(t)
    ELSE update_ancestor_heights(t, t.items[index].parent)

update_ancestor_heights_one_level(t, link) ==
    IF link = None \/ t.panic THEN t
    ELSE update_height(t, link)

update_ancestor_heights(t, link) ==
    IF link = None \/ t.panic THEN t
    ELSE update_ancestor_heights_up(update_height(t, link), link)

\* -------------------------------------------------- avl_vec: rotations
\* "fix parent -> y" of rotate_right: x's former parent (or root) now links y.
rotate_right_fix_parent(t, x_link, x_parent, y_link) ==
    IF x_parent # None
    THEN IF unwrap_occupied(t, x_parent).right = x_link
         THEN with_occupied_mut(t, x_parent, "right", y_link)
         ELSE with_occupied_mut(t, x_parent, "left", y_link)
    ELSE [t EXCEPT !.root = y_link]

rotate_fix_t2_skip(t, t2_link, x_link) == t

\* "fix x -> t2", second half: t2, when there is one, gets x as its parent.
rotate_fix_t2(t, t2_link, x_link) ==
    IF t2_link # None
    THEN with_occupied_mut(t, t2_link, "parent", x_link)
    ELSE t

rotate_right(t, x_link) ==
    IF x_link = None \/ t.panic THEN t
    ELSE IF ~Occupied(t, x_link) THEN Abort(t)
    ELSE LET x_left == t.items[x_link].left
             x_parent == t.items[x_link].parent
             y_link == x_left
         IN  IF y_link = None THEN t
             ELSE IF ~Occupied(t, y_link) THEN Abort(t)
             ELSE LET t2_link == t.items[y_link].right
                      t1 == rotate_right_fix_parent(t, x_link, x_parent, y_link)
                      t2 == with_occupied_mut(t1, y_link, "parent", x_parent)
                      t3 == with_occupied_mut(t2, x_link, "parent", y_link)
                      t4 == with_occupied_mut(t3, y_link, "right", x_link)
                      t5 == with_occupied_mut(t4, x_link, "left", t2_link)
                  IN  rotate_fix_t2(t5, t2_link, x_link)

rotate_left_fix_parent_always_left(t, x_link, x_parent, y_link) ==
    IF x_parent # None
    THEN with_occupied_mut(t, x_parent, "left", y_link)
    ELSE [t EXCEPT !.root = y_link]

\* "fix parent -> y" of rotate_left.
rotate_left_fix_parent(t, x_link, x_parent, y_link) ==
    IF x_parent # None
    THEN IF unwrap_occupied(t, x_parent).left = x_link
         THEN with_occupied_mut(t, x_parent, "left", y_link)
         ELSE with_occupied_mut(t, x_parent, "right", y_link)
    ELSE [t EXCEPT !.root = y_link]

rotate_left(t, x_link) ==
    IF x_link = None \/ t.panic THEN t
    ELSE IF ~Occupied(t, x_link) THEN Abort(t)
    ELSE LET x_right == t.items[x_link].right
             x_parent == t.items[x_link].parent
             y_link == x_right
         IN  IF y_link = None THEN t
             ELSE IF ~Occupied(t, y_link) THEN Abort(t)
             ELSE LET t2_link == t.items[y_link].left
                      t1 == rotate_left_fix_parent(t, x_link, x_parent, y_link)
                      t2 == with_occupied_mut(t1, y_link, "parent", x_parent)
                      t3 == with_occupied_mut(t2, x_link, "parent", y_link)
                      t4 == with_occupied_mut(t3, y_link, "left", x_link)
                      t5 == with_occupied_mut(t4, x_link, "right", t2_link)
                  IN  rotate_fix_t2(t5, t2_link, x_link)

\* --------------------------------------------------- avl_vec: rebalance
rebalance_no_rotation(t, link) == t

rebalance(t, link) ==
    IF link = None \/ t.panic THEN t
    ELSE IF ~Readable(t, link) THEN Abort(t)
    ELSE LET node == t.items[link]
             bf == balance_factor(t, link)
         IN  IF bf > 1
             THEN IF ~Readable(t, node.left) THEN Abort(t)
                  ELSE LET double == balance_factor(t, node.left) < 0
                           height_start == IF double THEN node.left ELSE link
                           t1 == IF double THEN rotate_left(t, node.left) ELSE t
                           t2 == rotate_right(t1, link)
                       IN  update_ancestor_heights(t2, height_start)
             ELSE IF bf < -1
             THEN IF ~Readable(t, node.right) THEN Abort(t)
                  ELSE LET double == balance_factor(t, node.right) > 0
                           height_start == IF double THEN node.right ELSE link
                           t1 == IF double THEN rotate_right(t, node.right) ELSE t
                           t2 == rotate_left(t1, link)
                       IN  update_ancestor_heights(t2, height_start)
             ELSE t

RECURSIVE rebalance_ancestors(_, _)
\* cur = self.unwrap_occupied(index).parent, and the next round of the loop.
rebalance_ancestors_up(t, index) ==
    IF t.panic THEN t
    ELSE IF ~Occupied(t, index) THEN Abort(t)
    ELSE rebalance_ancestors(t, t.items[index].parent)

rebalance_ancestors(t, link) ==
    IF link = None \/ t.panic THEN t
    ELSE rebalance_ancestors_up(rebalance(t, link), link)

\* --------------------------------------------------- avl_vec: traversal
RECURSIVE rightmost(_, _)
rightmost(t, cur) ==
    IF ~Occupied(t, cur) THEN Bad
    ELSE IF t.items[cur].right # None THEN rightmost(t, t.items[cur].right)
    ELSE cur

RECURSIVE leftmost(_, _)
leftmost(t, cur) ==
    IF ~Occupied(t, cur) THEN Bad
    ELSE IF t.items[cur].left # None THEN leftmost(t, t.items[cur].left)
    ELSE cur

before_sub(t, index) ==
    IF ~Occupied(t, index) THEN Bad
    ELSE IF t.items[index].left = None THEN None
    ELSE rightmost(t, t.items[index].left)

after_sub(t, index) ==
    IF ~Occupied(t, index) THEN Bad
    ELSE IF t.items[index].right = None THEN None
    ELSE leftmost(t, t.items[index].right)

RECURSIVE before_above_loop(_, _)
before_above_loop(t, cur_index) ==
    LET parent_index == t.items[cur_index].parent
    IN  IF parent_index = None THEN None
        ELSE IF ~Occupied(t, parent_index) THEN Bad
        ELSE IF t.items[parent_index].left = cur_index
             THEN before_above_loop(t, parent_index)
             ELSE parent_index

before_above(t, index) ==
    IF ~Occupied(t, index) THEN Bad ELSE before_above_loop(t, index)

RECURSIVE after_above_loop(_, _)
after_above_loop(t, cur_index) ==
    LET parent_index == t.items[cur_index].parent
    IN  IF parent_index = None THEN None
        ELSE IF ~Occupied(t, parent_index) THEN Bad
        ELSE IF t.items[parent_index].right = cur_index
             THEN after_above_loop(t, parent_index)
             ELSE parent_index

after_above(t, index) ==
    IF ~Occupied(t, index) THEN Bad ELSE after_above_loop(t, index)

\* Option::or: both operands are evaluated, the first Some wins.
before(t, index) ==
    LET sub == before_sub(t, index)
        above == before_above(t, index)
    IN  IF sub = Bad \/ above = Bad THEN Bad
        ELSE IF sub # None THEN sub ELSE above

after_sub_only(t, index) == after_sub(t, index)

after(t, index) ==
    LET sub == after_sub(t, index)
        above == after_above(t, index)
    IN  IF sub = Bad \/ above = Bad THEN Bad
        ELSE IF sub # None THEN sub ELSE above

RECURSIVE first_loop(_, _)
first_loop(t, cur) ==
    IF cur = None THEN None
    ELSE LET b == before(t, cur)
         IN  IF b = Bad THEN Bad
             ELSE IF b = None THEN cur
             ELSE first_loop(t, b)

first_is_root(t) == t.root

first(t) == first_loop(t, t.root)

\* ----------------------------------------------------- avl_vec: remove
\* First half of replace_node: the parent's left-or-right link (or root) now
\* holds new_link.
replace_in_parent_skip(t, node_index, node_parent, new_link) == t

replace_in_parent(t, node_index, node_parent, new_link) ==
    IF node_parent # None
    THEN IF unwrap_occupied(t, node_parent).left = node_index
         THEN with_occupied_mut(t, node_parent, "left", new_link)
         ELSE with_occupied_mut(t, node_parent, "right", new_link)
    ELSE [t EXCEPT !.root = new_link]

\* Second half of replace_node: new_link inherits a child link of the old node
\* unless that link is new_link itself.
\* The child new_index now has in `field`, if any, gets new_index as parent.
adopt_child(t, new_index, field) ==
    IF unwrap_occupied(t, new_index)[field] # None
    THEN with_occupied_mut(t, unwrap_occupied(t, new_index)[field], "parent",
                           new_index)
    ELSE t

inherit_child_unguarded(t, new_index, field, node_child) ==
    adopt_child(with_occupied_mut(t, new_index, field, node_child),
                new_index, field)

inherit_child(t, new_index, field, node_child) ==
    IF node_child # new_index
    THEN adopt_child(with_occupied_mut(t, new_index, field, node_child),
                     new_index, field)
    ELSE t

\* Second half of replace_node: new_link, when there is one, takes the old
\* node's parent and children.
replace_node_new(t, node, new_link) ==
    IF new_link = None THEN t
    ELSE LET t2 == with_occupied_mut(t, new_link, "parent", node.parent)
             t3 == inherit_child(t2, new_link, "left", node.left)
         IN  inherit_child(t3, new_link, "right", node.right)

replace_node(t, node_index, new_link) ==
    IF t.panic THEN t
    ELSE IF ~Occupied(t, node_index) THEN Abort(t)
    ELSE LET node == t.items[node_index]
         IN  IF node.parent # None /\ ~Occupied(t, node.parent) THEN Abort(t)
             ELSE replace_node_new(
                      replace_in_parent(t, node_index, node.parent, new_link),
                      node, new_link)

\* Where the height update and the rebalance walk of a two-child removal start.
ancestor_start_at_replacement(t, node_left, before_index) == before_index

ancestor_start(t, node_left, before_index) ==
    IF before_index = node_left
    THEN before_index
    ELSE unwrap_occupied(t, before_index).parent

\* self.len -= 1
len_after_remove_kept(len) == len

len_after_remove(len) == len - 1

\* The removed node is taken out of the links: its predecessor (two
\* children) or its only child, if any, takes its place, then heights are
\* updated and ancestors rebalanced.
\* Where the walks of remove_node start: ancestor_start or node_parent; Bad
\* when the predecessor expected by the two-child branch is missing.
remove_node_start(t, index, node) ==
    IF node.left # None /\ node.right # None
    THEN IF before_sub(t, index) \in {None, Bad}
         THEN Bad
         ELSE ancestor_start(t, node.left, before_sub(t, index))
    ELSE node.parent

\* The two replace_node calls of the two-child branch.
remove_node_splice(t, index, before_index) ==
    replace_node(replace_node(t, before_index, t.items[before_index].left),
                 index, before_index)

\* The tree once replace_node has taken the node out of the links.
remove_node_replaced(t, index, node) ==
    IF node.left # None /\ node.right # None
    THEN IF before_sub(t, index) \in {None, Bad}
         THEN Abort(t)
         ELSE remove_node_splice(t, index, before_sub(t, index))
    ELSE replace_node(t, index,
                      IF node.left # None THEN node.left ELSE node.right)

\* update_ancestor_heights(start); rebalance_ancestors(start)
remove_node_walk(t, start) ==
    IF start = Bad THEN Abort(t)
    ELSE rebalance_ancestors(update_ancestor_heights(t, start), start)

remove_node_unlink(t, index, node) ==
    remove_node_walk(remove_node_replaced(t, index, node),
                     remove_node_start(t, index, node))

\* The end of remove_node: r is what remove_node_from_arena returned.
remove_node_finish(r) ==
    IF r.t.panic THEN r
    ELSE IF r.t.len = 0 THEN [t |-> Abort(r.t), value |-> r.value]
    ELSE [t |-> [r.t EXCEPT !.len = len_after_remove(@)], value |-> r.value]

remove_node(t, index) ==
    IF t.panic THEN [t |-> t, value |-> None]
    ELSE IF ~Occupied(t, index) THEN [t |-> Abort(t), value |-> None]
    ELSE remove_node_finish(
             remove_node_from_arena(
                 remove_node_unlink(t, index, t.items[index]), index))

\* ------------------------------------------------- avl_vec: public API
\* Which child link of the closest node receives the new node.
attach_field_swapped(ord) == IF ord = "Less" THEN "right" ELSE "left"

attach_field(ord) == IF ord = "Less" THEN "left" ELSE "right"

\* The end of a successful insert: self.len += 1; true
insert_finish(t) ==
    [t |-> IF t.panic THEN t ELSE [t EXCEPT !.len = @ + 1], ret |-> TRUE]

\* insert below the closest node: `new` is what insert_node returned;
\* insert_linked is the tree when rebalance_ancestors is called.
insert_linked(new, closest, ord) ==
    update_ancestor_heights(
        with_occupied_mut(new.t, closest, attach_field(ord), new.index),
        closest)

insert_below(new, closest, ord) ==
    insert_finish(rebalance_ancestors(insert_linked(new, closest, ord), closest))

\* insert into the empty tree: `new` is what insert_node returned.
insert_root(new) ==
    insert_finish(IF new.t.panic THEN new.t
                  ELSE [new.t EXCEPT !.root = new.index])

insert_at_counting_duplicates(t, value, closest) ==
    IF closest = Bad THEN [t |-> Abort(t), ret |-> FALSE]
    ELSE IF closest # None
    THEN IF cmp(value, unwrap_occupied(t, closest).value) = "Equal"
         THEN [t |-> [t EXCEPT !.len = @ + 1], ret |-> FALSE]
         ELSE insert_below(insert_node(t, value, closest), closest,
                           cmp(value, unwrap_occupied(t, closest).value))
    ELSE insert_root(insert_node(t, value, None))

insert_at(t, value, closest) ==
    IF closest = Bad THEN [t |-> Abort(t), ret |-> FALSE]
    ELSE IF closest # None
    THEN IF cmp(value, unwrap_occupied(t, closest).value) = "Equal"
         THEN [t |-> t, ret |-> FALSE]
         ELSE insert_below(insert_node(t, value, closest), closest,
                           cmp(value, unwrap_occupied(t, closest).value))
    ELSE insert_root(insert_node(t, value, None))

insert(t, value) == insert_at(t, value, find_closest(t, value))

remove_at_closest(t, value, closest) ==
    IF closest = Bad THEN [t |-> Abort(t), ret |-> FALSE]
    ELSE IF closest = None THEN [t |-> t, ret |-> FALSE]
    ELSE [t |-> remove_node(t, closest).t, ret |-> TRUE]

remove_at(t, value, closest) ==
    IF closest = Bad THEN [t |-> Abort(t), ret |-> FALSE]
    ELSE IF closest = None THEN [t |-> t, ret |-> FALSE]
    ELSE IF cmp(value, unwrap_occupied(t, closest).value) # "Equal"
         THEN [t |-> t, ret |-> FALSE]
         ELSE [t |-> remove_node(t, closest).t, ret |-> TRUE]

remove_closest(t, value) == remove_at_closest(t, value, find_closest(t, value))

remove(t, value) == remove_at(t, value, find_closest(t, value))

\* Tree::height (the root's stored height, -1 for the empty tree).
height(t) == IF t.root = None THEN -1 ELSE unwrap_occupied(t, t.root).height

\* ------------------------------------------------------- binary_tree
\* A heap cell is a Box<Node<T>> or unallocated; a Link is a cell address or
\* None.  Box::new takes the lowest unallocated address: which address the
\* allocator hands out is not observable through the tree's interface.
BtCells == 0 .. (MaxBtNodes - 1)

BtUnallocated ==
    [alloc |-> FALSE, value |-> None, parent |-> None, left |-> None,
     right |-> None]

BtTree_new == [heap |-> [a \in BtCells |-> BtUnallocated], root |-> None,
               len |-> 0]

BtFree(b) == {a \in BtCells : ~b.heap[a].alloc}

\* Tree::node_for_value: a boxed node with no links.
bt_node_for_value(b, value) ==
    LET a == CHOOSE x \in BtFree(b) : \A y \in BtFree(b) : x <= y
    IN  [b |-> [b EXCEPT !.heap[a] = [alloc |-> TRUE, value |-> value,
                                      parent |-> None, left |-> None,
                                      right |-> None]],
         ptr |-> a]

RECURSIVE bt_find_closest_loop(_, _, _, _)
bt_find_closest_loop(b, value, prev, cur) ==
    IF cur = None THEN prev
    ELSE LET node == b.heap[cur]
             ord == cmp(value, node.value)
         IN  IF ord = "Less" THEN bt_find_closest_loop(b, value, cur, node.left)
             ELSE IF ord = "Greater"
                  THEN bt_find_closest_loop(b, value, cur, node.right)
                  ELSE cur

bt_find_closest(b, value) == bt_find_closest_loop(b, value, None, b.root)

bt_contains(b, value) ==
    LET closest == bt_find_closest(b, value)
    IN  closest # None /\ cmp(value, b.heap[closest].value) = "Equal"

bt_insert(b, value) ==
    LET closest == bt_find_closest(b, value)
    IN  IF closest # None
        THEN LET ord == cmp(value, b.heap[closest].value)
             IN  IF ord = "Equal" THEN [b |-> b, ret |-> FALSE]
                 ELSE LET new == bt_node_for_value(b, value)
                          b1 == [new.b EXCEPT
                                   !.heap[closest][attach_field(ord)] = new.ptr]
                          b2 == [b1 EXCEPT !.heap[new.ptr].parent = closest]
                      IN  [b |-> [b2 EXCEPT !.len = @ + 1], ret |-> TRUE]
        ELSE LET new == bt_node_for_value(b, value)
             IN  [b |-> [new.b EXCEPT !.root = new.ptr, !.len = @ + 1],
                  ret |-> TRUE]

RECURSIVE bt_rightmost(_, _)
bt_rightmost(b, cur) ==
    IF b.heap[cur].right # None THEN bt_rightmost(b, b.heap[cur].right) ELSE cur

\* Node::before_sub
bt_before_sub(b, ptr) ==
    IF b.heap[ptr].left = None THEN None ELSE bt_rightmost(b, b.heap[ptr].left)

\* new_link inherits a child link of the replaced node unless that link is
\* new_link itself (eq_link_and_node).
bt_inherit_child(b, new_ptr, field, node_child) ==
    IF node_child # new_ptr
    THEN LET b1 == [b EXCEPT !.heap[new_ptr][field] = node_child]
         IN  IF node_child # None
             THEN [b1 EXCEPT !.heap[node_child].parent = new_ptr]
             ELSE b1
    ELSE b

\* Tree::replace_node.  `node` is a reference into the heap: its fields are
\* read as they are when each statement runs.
bt_replace_node(b, node_ptr, new_link) ==
    LET parent_ptr == b.heap[node_ptr].parent
        b1 == IF parent_ptr # None
              THEN IF b.heap[parent_ptr].left = node_ptr
                   THEN [b EXCEPT !.heap[parent_ptr].left = new_link]
                   ELSE [b EXCEPT !.heap[parent_ptr].right = new_link]
              ELSE [b EXCEPT !.root = new_link]
    IN  IF new_link = None THEN b1
        ELSE LET b2 == [b1 EXCEPT !.heap[new_link].parent =
                                      b1.heap[node_ptr].parent]
                 b3 == bt_inherit_child(b2, new_link, "left",
                                        b2.heap[node_ptr].left)
             IN  bt_inherit_child(b3, new_link, "right", b3.heap[node_ptr].right)

bt_remove_node(b, node_ptr) ==
    LET node == b.heap[node_ptr]
        b1 == IF node.left # None /\ node.right # None
              THEN LET before_ptr == bt_before_sub(b, node_ptr)
                       a == bt_replace_node(b, before_ptr,
                                            b.heap[before_ptr].left)
                   IN  bt_replace_node(a, node_ptr, before_ptr)
              ELSE bt_replace_node(b, node_ptr,
                                   IF node.left # None THEN node.left
                                                       ELSE node.right)
    IN  [b1 EXCEPT !.heap[node_ptr] = BtUnallocated, !.len = @ - 1]

bt_remove(b, value) ==
    LET closest == bt_find_closest(b, value)
    IN  IF closest = None THEN [b |-> b, ret |-> FALSE]
        ELSE IF cmp(value, b.heap[closest].value) # "Equal"
             THEN [b |-> b, ret |-> FALSE]
             ELSE [b |-> bt_remove_node(b, closest), ret |-> TRUE]

\* ------------------------------------------------------------- heapq
\* HeapQ::values is a Vec indexed from 0; a sequence is indexed from 1.
HqValues == 0 .. (NumHq - 1)

HeapQ_new == <<>>

hq_at(values, index) == values[index + 1]

\* self.values.swap(a, b)
hq_swap(values, a, b) ==
    [values EXCEPT ![a + 1] = values[b + 1], ![b + 1] = values[a + 1]]

RECURSIVE siftup(_, _)
siftup(values, index) ==
    IF index > 0
    THEN IF hq_at(values, (index - 1) \div 2) < hq_at(values, index)
         THEN siftup(hq_swap(values, index, (index - 1) \div 2),
                     (index - 1) \div 2)
         ELSE values
    ELSE values

\* greater_idx of siftdown: the index of the greater child.
greater_idx_left_only(values, index) == 2 * index + 1

greater_idx(values, index) ==
    IF 2 * index + 2 < Len(values)
       /\ hq_at(values, 2 * index + 1) < hq_at(values, 2 * index + 2)
    THEN 2 * index + 2
    ELSE 2 * index + 1

RECURSIVE siftdown(_, _)
siftdown(values, index) ==
    IF index < Len(values)
    THEN IF 2 * index + 1 >= Len(values) THEN values
         ELSE IF hq_at(values, index) < hq_at(values, greater_idx(values, index))
         THEN siftdown(hq_swap(values, index, greater_idx(values, index)),
                       greater_idx(values, index))
         ELSE values
    ELSE values

hq_push(values, value) == siftup(Append(values, value), Len(values))

\* HeapQ::pop: what is left in values, and what is returned.
hq_pop(values) ==
    IF Len(values) = 0 THEN [values |-> values, ret |-> None]
    ELSE IF Len(values) = 1 THEN [values |-> <<>>, ret |-> values[1]]
    ELSE [values |-> siftdown(SubSeq(hq_swap(values, 0, Len(values) - 1),
                                     1, Len(values) - 1), 0),
          ret |-> values[1]]

hq_top(values) == IF Len(values) = 0 THEN None ELSE values[1]

hq_len(values) == Len(values)

hq_is_empty(values) == Len(values) = 0

\* ---------------------------------------------------------------- state
VARIABLES
    hq,         \* HeapQ::values
    hq_ref,     \* reference multiset: how many of each value the heap holds
    freed,      \* the slots of removed elements not taken by an insert since,
                \* the most recently removed first
    peak,       \* the largest number of elements the tree has held at once
    tree,       \* the avl_vec::Tree: items, head_free, root, len (and panic)
    phase,      \* "tree": owned by the caller; "iter": borrowed by an Iter;
                \* "into_iter": moved into an IntoIter; "drop": inside
                \* Drop::drop; "dropped": gone
    iter_next,  \* Iter::next
    out,        \* the values the current iterator has yielded so far
    last,       \* the last public call: its name, argument and return value
    ref,        \* reference set: values inserted and not removed since
    n_ins,      \* calls of insert that returned true (counted by SpecWide)
    n_rem,      \* calls of remove that returned true (counted by SpecWide)
    bt          \* the binary_tree::Tree: heap cells, root, len

vars == <<tree, phase, iter_next, out, last, ref, n_ins, n_rem, bt, hq, hq_ref, freed, peak>>

avl_vars == <<tree, phase, iter_next, out>>

NoCall == [op |-> "new", arg |-> None, ret |-> None]

Call(op, arg, ret) == [op |-> op, arg |-> arg, ret |-> ret]

Init ==
    /\ tree = Tree_new
    /\ phase = "tree"
    /\ iter_next = None
    /\ out = <<>>
    /\ last = NoCall
    /\ ref = {}
    /\ n_ins = 0
    /\ n_rem = 0
    /\ bt = BtTree_new
    /\ hq = HeapQ_new
    /\ hq_ref = [v \in HqValues |-> 0]
    /\ freed = <<>>
    /\ peak = 0

\* The slot that holds value v, None when no slot does.
SlotOf(t, v) ==
    IF \E i \in DOMAIN t.items : Occupied(t, i) /\ t.items[i].value = v
    THEN CHOOSE i \in DOMAIN t.items : Occupied(t, i) /\ t.items[i].value = v
    ELSE None

\* The least value in an Occupied slot.
LeastHeld(t) ==
    IF \E i \in DOMAIN t.items : Occupied(t, i)
    THEN CHOOSE v \in {t.items[i].value : i \in {j \in DOMAIN t.items : Occupied(t, j)}} :
             \A i \in DOMAIN t.items : Occupied(t, i) => v <= t.items[i].value
    ELSE None

\* Vec::push is offered only while the slot table is below its capacity.
HasRoom(t, cap) == t.head_free # None \/ ItemsLen(t) < cap

\* Tree::insert(v), r being what it returns, and its effect on the
\* reference set.
InsertCore(v, cap, r) ==
    /\ phase = "tree" /\ ~tree.panic
    /\ HasRoom(tree, cap)
    /\ tree' = r.t
    /\ ref' = ref \cup {v}
    /\ freed' = IF v \notin ref /\ freed # <<>> THEN Tail(freed) ELSE freed
    /\ peak' = Max(peak, Cardinality(ref \cup {v}))
    /\ UNCHANGED <<phase, iter_next, out, bt, hq, hq_ref>>

\* Tree::remove(&v), likewise.
RemoveCore(v, r) ==
    /\ phase = "tree" /\ ~tree.panic
    /\ tree' = r.t
    /\ ref' = ref \ {v}
    /\ freed' = IF v \in ref THEN <<SlotOf(tree, v)>> \o freed ELSE freed
    /\ UNCHANGED <<phase, iter_next, out, bt, hq, hq_ref, peak>>

InsertCall(v, r) ==
    /\ InsertCore(v, MaxSlots, r)
    /\ last' = Call("insert", v, r.ret)
    /\ UNCHANGED <<n_ins, n_rem>>

Insert(v) == InsertCall(v, insert(tree, v))

RemoveCall(v, r) ==
    /\ RemoveCore(v, r)
    /\ last' = Call("remove", v, r.ret)
    /\ UNCHANGED <<n_ins, n_rem>>

Remove(v) == RemoveCall(v, remove(tree, v))

Contains(v) ==
    /\ phase = "tree" /\ ~tree.panic
    /\ LET r == contains(tree, v)
       IN  /\ tree' = r.t
           /\ last' = Call("contains", v, r.ret)
    /\ UNCHANGED <<phase, iter_next, out, ref, n_ins, n_rem, bt, hq, hq_ref, freed, peak>>

TreeLen ==
    /\ phase = "tree" /\ ~tree.panic
    /\ last' = Call("len", None, tree.len)
    /\ UNCHANGED <<tree, phase, iter_next, out, ref, n_ins, n_rem, bt, hq, hq_ref, freed, peak>>

\* Tree::iter
IterStart ==
    /\ phase = "tree" /\ ~tree.panic
    /\ LET f == first(tree)
       IN  /\ tree' = IF f = Bad THEN Abort(tree) ELSE tree
           /\ iter_next' = f
    /\ phase' = "iter"
    /\ out' = <<>>
    /\ last' = Call("iter", None, None)
    /\ UNCHANGED <<ref, n_ins, n_rem, bt, hq, hq_ref, freed, peak>>

\* Iter::next
IterNext ==
    /\ phase = "iter" /\ ~tree.panic
    /\ IF iter_next = None
       THEN /\ last' = Call("next", None, None)
            /\ UNCHANGED <<tree, iter_next, out>>
       ELSE IF ~Occupied(tree, iter_next)
       THEN /\ tree' = Abort(tree)
            /\ last' = Call("next", None, None)
            /\ UNCHANGED <<iter_next, out>>
       ELSE LET a == after(tree, iter_next)
            IN  /\ tree' = IF a = Bad THEN Abort(tree) ELSE tree
                /\ iter_next' = a
                /\ out' = Append(out, tree.items[iter_next].value)
                /\ last' = Call("next", None, tree.items[iter_next].value)
    /\ UNCHANGED <<phase, ref, n_ins, n_rem, bt, hq, hq_ref, freed, peak>>

\* The Iter goes out of scope: the borrow ends.
IterEnd ==
    /\ phase = "iter" /\ ~tree.panic
    /\ phase' = "tree"
    /\ iter_next' = None
    /\ out' = <<>>
    /\ last' = Call("iter_end", None, None)
    /\ UNCHANGED <<tree, ref, n_ins, n_rem, bt, hq, hq_ref, freed, peak>>

\* Tree::into_iter
IntoIterStart ==
    /\ phase = "tree" /\ ~tree.panic
    /\ phase' = "into_iter"
    /\ out' = <<>>
    /\ last' = Call("into_iter", None, None)
    /\ UNCHANGED <<tree, iter_next, ref, n_ins, n_rem, bt, hq, hq_ref, freed, peak>>

\* IntoIter::next: self.tree.first().map(|ptr| self.tree.remove_node(ptr))
IntoIterRemoved(r) ==
    /\ tree' = r.t
    /\ out' = Append(out, r.value)
    /\ last' = Call("next", None, r.value)

IntoIterAt(f) ==
    IF f = Bad
    THEN /\ tree' = Abort(tree)
         /\ last' = Call("next", None, None)
         /\ out' = out
    ELSE IF f = None
    THEN /\ last' = Call("next", None, None)
         /\ UNCHANGED <<tree, out>>
    ELSE IntoIterRemoved(remove_node(tree, f))

IntoIterNext ==
    /\ phase = "into_iter" /\ ~tree.panic
    /\ IntoIterAt(first(tree))
    /\ freed' = IF tree.root # None
                THEN <<SlotOf(tree, LeastHeld(tree))>> \o freed
                ELSE freed
    /\ UNCHANGED <<phase, iter_next, ref, n_ins, n_rem, bt, hq, hq_ref, peak>>

\* The tree (or the IntoIter holding it) goes out of scope: Drop::drop starts.
DropStart ==
    /\ phase \in {"tree", "into_iter"} /\ ~tree.panic
    /\ phase' = "drop"
    /\ last' = Call("drop", None, None)
    /\ UNCHANGED <<tree, iter_next, out, ref, n_ins, n_rem, bt, hq, hq_ref, freed, peak>>

\* One iteration of the loop of Drop::drop, or its exit.
DropStep ==
    /\ phase = "drop" /\ ~tree.panic
    /\ IF tree.root # None
       THEN /\ tree' = remove_node(tree, tree.root).t
            /\ phase' = phase
       ELSE /\ phase' = "dropped"
            /\ tree' = tree
    /\ freed' = IF tree.root # None THEN <<tree.root>> \o freed ELSE freed
    /\ UNCHANGED <<iter_next, out, last, ref, n_ins, n_rem, bt, hq, hq_ref, peak>>

NextAvl ==
    \/ \E v \in Values : Insert(v)
    \/ \E v \in Values : Remove(v)
    \/ \E v \in Values : Contains(v)
    \/ TreeLen
    \/ IterStart
    \/ IterNext
    \/ IterEnd
    \/ IntoIterStart
    \/ IntoIterNext
    \/ DropStart
    \/ DropStep

Next == NextAvl

Spec == Init /\ [][Next]_vars

\* ------------------------------------------------- the wide specification
\* SpecWide offers more values than Spec and does not record the calls
\* (`last` stays as it is), which keeps its state space within reach.
WideValues == 0 .. (NumWide - 1)

\* At most MaxWideInserts calls of insert succeed in a run of SpecWide.
WideInsertCall(v, r) ==
    /\ n_ins < MaxWideInserts
    /\ InsertCore(v, NumWide, r)
    /\ n_ins' = IF r.ret THEN n_ins + 1 ELSE n_ins
    /\ UNCHANGED <<last, n_rem>>

WideInsert(v) == WideInsertCall(v, insert(tree, v))

\* At most MaxWideRemoves calls of remove succeed in a run of SpecWide.
WideRemoveCall(v, r) ==
    /\ n_rem < MaxWideRemoves
    /\ RemoveCore(v, r)
    /\ n_rem' = IF r.ret THEN n_rem + 1 ELSE n_rem
    /\ UNCHANGED <<last, n_ins>>

WideRemove(v) == WideRemoveCall(v, remove(tree, v))

NextWideAvl ==
    \/ \E v \in WideValues : WideInsert(v)
    \/ \E v \in WideValues : WideRemove(v)
    \/ IntoIterStart
    \/ IntoIterNext
    \/ DropStart
    \/ DropStep

NextWide == NextWideAvl

SpecWide == Init /\ [][NextWide]_vars

\* ------------------------------------------- ascending inserts (SpecAsc)
\* insert(0), insert(1), ... as tests::insert_large_logarithmic_height does;
\* n_ins is the number of values inserted so far.
AscInsertCall(r) ==
    /\ n_ins < MaxAsc
    /\ InsertCore(n_ins, MaxAsc, r)
    /\ n_ins' = IF r.ret THEN n_ins + 1 ELSE n_ins
    /\ UNCHANGED <<last, n_rem>>

AscInsert == AscInsertCall(insert(tree, n_ins))

NextAsc == AscInsert

SpecAsc == Init /\ [][NextAsc]_vars

\* ------------------------------------------------ the drop loop (SpecDrop)
\* Trees are built by insert and remove, possibly drained in part by an
\* IntoIter, and dropped.  Once Drop::drop has started its loop keeps running:
\* it is sequential code with nothing to wait for, hence weak fairness of its
\* rounds.  DropRound is what a round of the loop does to phase and freed:
\* every DropStep is a DropRound, DropStep can be taken whenever DropRound
\* can, and no other action leaves a state in which phase is "drop".
QuietInsertCall(v, r) ==
    /\ InsertCore(v, MaxSlots, r)
    /\ UNCHANGED <<last, n_ins, n_rem>>

QuietInsert(v) == QuietInsertCall(v, insert(tree, v))

QuietRemoveCall(v, r) ==
    /\ RemoveCore(v, r)
    /\ UNCHANGED <<last, n_ins, n_rem>>

QuietRemove(v) == QuietRemoveCall(v, remove(tree, v))

NextDrop ==
    \/ \E v \in Values : QuietInsert(v)
    \/ \E v \in Values : QuietRemove(v)
    \/ IntoIterStart
    \/ IntoIterNext
    \/ DropStart
    \/ DropStep

DropRound ==
    /\ phase = "drop" /\ ~tree.panic
    /\ IF tree.root # None
       THEN /\ freed' = <<tree.root>> \o freed
            /\ phase' = phase
       ELSE /\ phase' = "dropped"
            /\ freed' = freed

SpecDrop == Init /\ [][NextDrop]_vars /\ WF_<<phase, freed>>(DropRound)

\* ------------------------------------------------- binary_tree (SpecBT)
BtInsert(v) ==
    /\ BtFree(bt) # {}
    /\ LET r == bt_insert(bt, v)
       IN  /\ bt' = r.b
           /\ last' = Call("insert", v, r.ret)
           /\ n_ins' = IF r.ret THEN n_ins + 1 ELSE n_ins
    /\ ref' = ref \cup {v}
    /\ UNCHANGED <<avl_vars, n_rem, hq, hq_ref, freed, peak>>

BtRemove(v) ==
    /\ n_rem < MaxBtRemoves
    /\ LET r == bt_remove(bt, v)
       IN  /\ bt' = r.b
           /\ last' = Call("remove", v, r.ret)
           /\ n_rem' = IF r.ret THEN n_rem + 1 ELSE n_rem
    /\ ref' = ref \ {v}
    /\ UNCHANGED <<avl_vars, n_ins, hq, hq_ref, freed, peak>>

NextBT ==
    \/ \E v \in Values : BtInsert(v)
    \/ \E v \in Values : BtRemove(v)

SpecBT == Init /\ [][NextBT]_vars

\* ------------------------------------------------------ heapq (SpecHQ)
tree_vars == <<tree, phase, iter_next, out, ref, n_ins, n_rem, bt, freed, peak>>

\* The greatest value the reference multiset holds, None when it is empty.
RefMax(m) ==
    IF \A v \in DOMAIN m : m[v] = 0 THEN None
    ELSE CHOOSE v \in DOMAIN m :
             m[v] > 0 /\ \A w \in DOMAIN m : m[w] > 0 => w <= v

RefWithout(m, v) == IF v = None THEN m ELSE [m EXCEPT ![v] = @ - 1]

HqPush(v) ==
    /\ Len(hq) < MaxHqLen
    /\ hq' = hq_push(hq, v)
    /\ hq_ref' = [hq_ref EXCEPT ![v] = @ + 1]
    /\ last' = Call("push", v, None)
    /\ UNCHANGED tree_vars

HqPop ==
    /\ hq' = hq_pop(hq).values
    /\ hq_ref' = RefWithout(hq_ref, RefMax(hq_ref))
    /\ last' = Call("pop", None, hq_pop(hq).ret)
    /\ UNCHANGED tree_vars

HqTop ==
    /\ last' = Call("top", None, hq_top(hq))
    /\ UNCHANGED <<tree_vars, hq, hq_ref, freed, peak>>

HqLen ==
    /\ last' = Call("len", None, hq_len(hq))
    /\ UNCHANGED <<tree_vars, hq, hq_ref, freed, peak>>

HqIsEmpty ==
    /\ last' = Call("is_empty", None, hq_is_empty(hq))
    /\ UNCHANGED <<tree_vars, hq, hq_ref, freed, peak>>

NextHQ ==
    \/ \E v \in HqValues : HqPush(v)
    \/ HqPop
    \/ HqTop
    \/ HqLen
    \/ HqIsEmpty

SpecHQ == Init /\ [][NextHQ]_vars

\* ------------------------------------------------ what the claims speak of
Universe == Values \cup WideValues

\* The slots reachable from `link` through left and right links.
RECURSIVE Subtree(_, _, _)
Subtree(t, link, fuel) ==
    IF link = None \/ fuel = 0 \/ ~Occupied(t, link) THEN {}
    ELSE {link} \cup Subtree(t, t.items[link].left, fuel - 1)
                \cup Subtree(t, t.items[link].right, fuel - 1)

Reach(t) == Subtree(t, t.root, ItemsLen(t))

OccupiedSlots(t) == {i \in DOMAIN t.items : t.items[i].tag = "Occupied"}

\* The values of the subtree at `link`, left to right.
RECURSIVE InOrder(_, _, _)
InOrder(t, link, fuel) ==
    IF link = None \/ fuel = 0 \/ ~Occupied(t, link) THEN <<>>
    ELSE InOrder(t, t.items[link].left, fuel - 1)
         \o <<t.items[link].value>>
         \o InOrder(t, t.items[link].right, fuel - 1)

InOrderAll(t) == InOrder(t, t.root, ItemsLen(t))

\* The true height of the subtree at `link`: -1 when absent, 0 for a leaf.
RECURSIVE TrueHeight(_, _, _)
TrueHeight(t, link, fuel) ==
    IF link = None \/ fuel = 0 \/ ~Occupied(t, link) THEN -1
    ELSE 1 + Max(TrueHeight(t, t.items[link].left, fuel - 1),
                 TrueHeight(t, t.items[link].right, fuel - 1))

Abs(x) == IF x < 0 THEN -x ELSE x

BalancedAt(t, i) ==
    Abs(TrueHeight(t, t.items[i].left, ItemsLen(t))
        - TrueHeight(t, t.items[i].right, ItemsLen(t))) <= 1

Balanced(t) == \A i \in Reach(t) : BalancedAt(t, i)

SubtreeValues(t, link) ==
    {t.items[i].value : i \in Subtree(t, link, ItemsLen(t))}

BstOrder(t) ==
    \A i \in Reach(t) :
        /\ \A w \in SubtreeValues(t, t.items[i].left) : w < t.items[i].value
        /\ \A w \in SubtreeValues(t, t.items[i].right) : w > t.items[i].value

StrictlyAscending(s) == \A i \in 1 .. (Len(s) - 1) : s[i] < s[i + 1]

SeqRange(s) == {s[i] : i \in 1 .. Len(s)}

Min(S) == CHOOSE x \in S : \A y \in S : x <= y

\* The elements of a set of numbers in ascending order.
RECURSIVE Sorted(_)
Sorted(S) == IF S = {} THEN <<>> ELSE <<Min(S)>> \o Sorted(S \ {Min(S)})

\* Parent and child links agree, the root has no parent.
LinksConsistent(t) ==
    /\ t.root # None => Occupied(t, t.root) /\ t.items[t.root].parent = None
    /\ \A i \in Reach(t) :
        /\ t.items[i].left # None =>
              Occupied(t, t.items[i].left) /\ t.items[t.items[i].left].parent = i
        /\ t.items[i].right # None =>
              Occupied(t, t.items[i].right) /\ t.items[t.items[i].right].parent = i

Prefix(s, n) == SubSeq(s, 1, n)

Suffix(s, n) == SubSeq(s, n + 1, Len(s))

RECURSIVE FloorLog2(_)
FloorLog2(n) == IF n <= 1 THEN 0 ELSE 1 + FloorLog2(n \div 2)

\* ------------------------------------------------------------ the claims

\* (C1) Membership: after any sequence of insert and remove calls,
\* contains(v) is true exactly for the values of the reference set, a call
\* insert(v) returns true exactly when v is absent from it and a call
\* remove(v) returns true exactly when v is in it.
C1_MembershipMatchesReference ==
    (phase = "tree" /\ ~tree.panic) =>
        \A v \in Universe :
            /\ contains(tree, v).ret = (v \in ref)
            /\ insert(tree, v).ret = (v \notin ref)
            /\ remove(tree, v).ret = (v \in ref)

\* A remove has succeeded and left at least two values behind.
C1_Witness ==
    /\ phase = "tree" /\ ~tree.panic
    /\ last.op = "remove" /\ last.ret = TRUE
    /\ Cardinality(ref) >= 2
    /\ ~contains(tree, last.arg).ret

\* (C2) AVL balance: after every public operation (insert, remove, each step
\* of the consuming iterator) every node reachable from the root has subtrees
\* whose true heights differ by at most one.
C2_BalancedAlways == ~tree.panic => Balanced(tree)

\* The consuming iterator has taken a step on a tree of true height 2 that
\* had seen a removal.
C2_Witness ==
    /\ phase = "into_iter" /\ Len(out) >= 1 /\ n_rem >= 1
    /\ TrueHeight(tree, tree.root, ItemsLen(tree)) = 2

\* (C3) Search-tree order: after any sequence of inserts and removes every
\* node's left subtree holds only smaller values and its right subtree only
\* greater ones, so the in-order sequence is strictly ascending.
C3_BstOrder ==
    ~tree.panic => BstOrder(tree) /\ StrictlyAscending(InOrderAll(tree))

\* A remove has succeeded and left a tree of at least three nodes.
C3_Witness ==
    /\ phase = "tree" /\ last.op = "remove" /\ last.ret = TRUE
    /\ Cardinality(Reach(tree)) >= 3

\* (C4) Count: len equals successful inserts minus successful removes, the
\* number of Occupied slots and the number of nodes reachable from root.
C4_LenCounts ==
    (phase = "tree" /\ ~tree.panic) =>
        /\ tree.len = n_ins - n_rem
        /\ tree.len = Cardinality(OccupiedSlots(tree))
        /\ tree.len = Cardinality(Reach(tree))

\* Inserts and removes have both succeeded, and a freed slot is waiting.
C4_Witness ==
    /\ phase = "tree" /\ n_ins >= 4 /\ n_rem >= 2
    /\ tree.len >= 2 /\ tree.head_free # None

\* (C5) A rejected mutation is a no-op: insert(v) of a value the tree holds
\* and remove(v) of a value it does not hold return false and leave the whole
\* tree (slot table, free-list head, root, links, heights, len) as it was.
C5_RejectedIsNoOp ==
    [][\A v \in Values :
        /\ (phase = "tree" /\ last'.op = "insert" /\ last'.arg = v
              /\ contains(tree, v).ret)
           => (last'.ret = FALSE /\ tree' = tree)
        /\ (phase = "tree" /\ last'.op = "remove" /\ last'.arg = v
              /\ ~contains(tree, v).ret)
           => (last'.ret = FALSE /\ tree' = tree)]_vars

\* An insert was rejected on a tree of at least two values.
C5_Witness ==
    /\ phase = "tree" /\ last.op = "insert" /\ last.ret = FALSE
    /\ tree.len >= 2 /\ contains(tree, last.arg).ret

\* What (C6) asks of a state in which an Iter is alive: it has yielded the
\* first values of the reference set in ascending order, and points at the
\* next one, or at nothing once all have been yielded.
IterOnTrack ==
    (phase = "iter" /\ ~tree.panic) =>
        /\ Len(out) <= Cardinality(ref)
        /\ out = Prefix(Sorted(ref), Len(out))
        /\ (iter_next = None) = (Len(out) = Cardinality(ref))
        /\ iter_next # None =>
              /\ Occupied(tree, iter_next)
              /\ tree.items[iter_next].value = Sorted(ref)[Len(out) + 1]

\* (C6) The non-consuming iterator yields exactly the values held, in
\* strictly ascending order, each once, then None; it does not modify the
\* tree.
C6_IterYieldsSorted ==
    [][/\ IterOnTrack'
       /\ phase' = "iter" => tree' = tree
       /\ (phase = "iter" /\ iter_next = None /\ last'.op = "next")
             => (last'.ret = None /\ out' = out)]_vars

\* An Iter over at least three values has been exhausted and asked again.
C6_Witness ==
    /\ phase = "iter" /\ iter_next = None /\ Len(out) >= 3
    /\ last.op = "next" /\ last.ret = None

\* (C7) The consuming iterator drains the tree in ascending order: each
\* next() removes and returns the minimum (len goes down by one, what remains
\* is an ordered, balanced, consistently linked tree), and after |S| calls it
\* returns None with the tree empty.
C7_IntoIterDrains ==
    (phase = "into_iter" /\ ~tree.panic) =>
        /\ Len(out) <= Cardinality(ref)
        /\ out = Prefix(Sorted(ref), Len(out))
        /\ InOrderAll(tree) = Suffix(Sorted(ref), Len(out))
        /\ tree.len = Cardinality(ref) - Len(out)
        /\ BstOrder(tree) /\ Balanced(tree) /\ LinksConsistent(tree)
        /\ (last.op = "next" /\ last.ret # None) => last.ret = out[Len(out)]
        /\ (last.op = "next" /\ last.ret = None) =>
              (Len(out) = Cardinality(ref) /\ tree.root = None /\ tree.len = 0)

\* An IntoIter over at least four values has been drained and asked again.
C7_Witness ==
    /\ phase = "into_iter" /\ Len(out) >= 4
    /\ last.op = "next" /\ last.ret = None

\* (C8) After inserting 0 .. n-1 in ascending order into an empty tree, the
\* root's stored height is floor(log2(n)).
C8_AscendingHeight ==
    (n_ins >= 1 /\ ~tree.panic) => height(tree) = FloorLog2(n_ins)

\* A hundred values have been inserted in ascending order.
C8_Witness == n_ins = 100 /\ tree.len = 100 /\ height(tree) = 6

\* (C9) No sequence of public operations reaches an abort: no slot that is
\* not Occupied is unwrapped, no 'Corrupted arena' branch is taken, the
\* two-child removal finds its predecessor, len does not underflow.
C9_NoAbort == ~tree.panic

\* Drop::drop is at work on a tree that has both freed and occupied slots.
C9_Witness ==
    /\ phase = "drop" /\ ~tree.panic
    /\ tree.head_free # None /\ tree.root # None /\ ItemsLen(tree) >= 3

\* What remove(v) does to the binary_tree b that holds v: it returns true,
\* v is gone, every other value held is still held, len is one less.
BtRemovesExactly(b, v) ==
    /\ bt_remove(b, v).ret
    /\ ~bt_contains(bt_remove(b, v).b, v)
    /\ \A w \in Values \ {v} :
          bt_contains(b, w) => bt_contains(bt_remove(b, v).b, w)
    /\ bt_remove(b, v).b.len = b.len - 1

\* (C10) binary_tree: after any sequence of inserts, remove(v) of a present
\* value returns true and removes exactly v.
C10_BtRemoveExact ==
    n_rem = 0 => \A v \in Values : bt_contains(bt, v) => BtRemovesExactly(bt, v)

\* The values of a sequence, counted.
CountsOf(values) ==
    [v \in HqValues |-> Cardinality({i \in 1 .. Len(values) : values[i] = v})]

RefSize(m) == Cardinality({<<v, k>> \in HqValues \X (1 .. MaxHqLen + 1) : k <= m[v]})

\* The reference multiset listed from its greatest value down.
RECURSIVE RefDescending(_)
RefDescending(m) ==
    IF RefMax(m) = None THEN <<>>
    ELSE <<RefMax(m)>> \o RefDescending(RefWithout(m, RefMax(m)))

\* What pop() returns, call after call, until the heap is empty.
RECURSIVE HqDrain(_)
HqDrain(values) ==
    IF Len(values) = 0 THEN <<>>
    ELSE <<hq_pop(values).ret>> \o HqDrain(hq_pop(values).values)

\* (C11) heapq: after any sequence of push and pop, top() is the greatest
\* element held, pop() removes and returns it (None on the empty heap), len()
\* drops by one per successful pop, and popping until empty yields the
\* multiset held in non-increasing order.
C11_HeapPopsGreatest ==
    /\ CountsOf(hq) = hq_ref
    /\ hq_len(hq) = RefSize(hq_ref)
    /\ hq_top(hq) = RefMax(hq_ref)
    /\ hq_pop(hq).ret = RefMax(hq_ref)
    /\ CountsOf(hq_pop(hq).values) = RefWithout(hq_ref, RefMax(hq_ref))
    /\ hq_len(hq_pop(hq).values) = IF Len(hq) = 0 THEN 0 ELSE hq_len(hq) - 1
    /\ HqDrain(hq) = RefDescending(hq_ref)
    /\ (last.op = "pop" /\ last.ret # None) =>
          last.ret = RefMax([hq_ref EXCEPT ![last.ret] = @ + 1])
    /\ (last.op = "pop" /\ last.ret = None) => Len(hq) = 0

\* A pop has returned a value and left at least three, not all equal.
C11_Witness ==
    /\ last.op = "pop" /\ last.ret # None
    /\ Len(hq) >= 3 /\ Cardinality(SeqRange(hq)) >= 2

\* The stored height behind a link, -1 for an absent child.
StoredHeight(t, link) == IF link = None THEN -1 ELSE t.items[link].height

HeightStoredRight(t, i) ==
    t.items[i].height = 1 + Max(StoredHeight(t, t.items[i].left),
                                StoredHeight(t, t.items[i].right))

\* (C12) After every public operation the stored height of every node
\* reachable from root is 1 + max of its children's stored heights, -1 for an
\* absent child, so stored heights are the true heights of the subtrees.
C12_StoredHeights ==
    ~tree.panic =>
        \A i \in Reach(tree) :
            /\ HeightStoredRight(tree, i)
            /\ tree.items[i].height = TrueHeight(tree, i, ItemsLen(tree))

\* A tree of height 2 with five or more nodes that has seen a removal.
C12_Witness ==
    /\ phase = "tree" /\ n_rem >= 1 /\ tree.len >= 5 /\ height(tree) = 2

\* (C13) After every public operation parent and child links agree: a child
\* names its parent, every reachable node other than the root is a child of
\* its parent, the root has no parent, no node is its own parent or child,
\* and the links form a tree (every node is met once).
C13_LinksFormTree ==
    ~tree.panic =>
        /\ LinksConsistent(tree)
        /\ \A i \in Reach(tree) :
              /\ i \notin {tree.items[i].parent, tree.items[i].left,
                           tree.items[i].right}
              /\ (i # tree.root) =>
                    /\ tree.items[i].parent \in Reach(tree)
                    /\ i \in {tree.items[tree.items[i].parent].left,
                              tree.items[tree.items[i].parent].right}
              /\ tree.items[i].left # None =>
                    tree.items[i].left # tree.items[i].right
        /\ Len(InOrderAll(tree)) = Cardinality(Reach(tree))

\* A tree that has seen a removal and whose root has a grandchild.
C13_Witness ==
    /\ phase = "tree" /\ n_rem >= 1 /\ tree.root # None
    /\ \E i \in Reach(tree) :
          /\ tree.items[i].parent \notin {None, tree.root}
          /\ tree.items[i].left = None /\ tree.items[i].right = None

\* The slots met from `link` along next_free.
RECURSIVE FreeListFrom(_, _, _)
FreeListFrom(t, link, fuel) ==
    IF link = None \/ fuel = 0 \/ ~InRange(t, link) THEN <<>>
    ELSE IF t.items[link].tag # "Free" THEN <<>>
    ELSE <<link>> \o FreeListFrom(t, t.items[link].next_free, fuel - 1)

FreeList(t) == FreeListFrom(t, t.head_free, ItemsLen(t) + 1)

FreeSlots(t) == {i \in DOMAIN t.items : t.items[i].tag = "Free"}

\* (C14) Between public operations the slot indices are partitioned: the
\* slots reachable from root are exactly the Occupied ones, the slots met from
\* head_free along next_free are exactly the Free ones, each met once and the
\* walk ending at None, and every index is in exactly one of the two sets.
C14_SlotsPartitioned ==
    ~tree.panic =>
        /\ Reach(tree) = OccupiedSlots(tree)
        /\ SeqRange(FreeList(tree)) = FreeSlots(tree)
        /\ Len(FreeList(tree)) = Cardinality(FreeSlots(tree))
        /\ (tree.head_free = None) = (FreeList(tree) = <<>>)
        /\ FreeList(tree) # <<>> =>
              tree.items[FreeList(tree)[Len(FreeList(tree))]].next_free = None
        /\ Reach(tree) \cup SeqRange(FreeList(tree)) = DOMAIN tree.items
        /\ Reach(tree) \cap SeqRange(FreeList(tree)) = {}
        /\ DOMAIN tree.items = 0 .. (ItemsLen(tree) - 1)

\* A consuming iterator has freed three slots or more and nodes remain.
C14_Witness ==
    /\ phase = "into_iter" /\ ~tree.panic
    /\ Len(FreeList(tree)) >= 3 /\ Len(out) >= 3 /\ tree.root # None

\* (C15) Slot allocation is last-freed-first-reused and never shrinks: a
\* successful insert puts the new node in the slot of the most recent removal
\* not reused yet, which is the free-list head, and keeps the table length;
\* it appends a slot only when no slot is Free; no step shortens the table,
\* whose length is the largest number of elements held at any one time.
C15_LifoReuseNoShrink ==
    [][(~tree.panic /\ ~tree'.panic) =>
        /\ ItemsLen(tree') >= ItemsLen(tree)
        /\ FreeList(tree') = freed'
        /\ ItemsLen(tree') = peak'
        /\ ItemsLen(tree') > ItemsLen(tree) => FreeSlots(tree) = {}
        /\ \A v \in Universe :
              (v \notin ref /\ v \in ref') =>
                  IF freed # <<>>
                  THEN /\ SlotOf(tree', v) = Head(freed)
                       /\ Head(freed) = tree.head_free
                       /\ ItemsLen(tree') = ItemsLen(tree)
                  ELSE /\ SlotOf(tree', v) = ItemsLen(tree)
                       /\ ItemsLen(tree') = ItemsLen(tree) + 1]_vars

\* After two removals an insert has reused a slot and one freed slot is left.
C15_Witness ==
    /\ phase = "tree" /\ n_rem = 2 /\ n_ins >= 5
    /\ Len(freed) = 1 /\ ItemsLen(tree) = 4 /\ tree.len = 3

\* The node at `link` and the nodes above it, up to the root.
RECURSIVE AncestorsFrom(_, _, _)
AncestorsFrom(t, link, fuel) ==
    IF link = None \/ fuel = 0 \/ ~Occupied(t, link) THEN {}
    ELSE {link} \cup AncestorsFrom(t, t.items[link].parent, fuel - 1)

\* rebalance(link) rotates exactly when the balance factor it reads is
\* beyond 1 or -1.
RebalanceRotates(t, link) ==
    Readable(t, link) /\ Abs(balance_factor(t, link)) > 1

\* What (C16) asks of the tree t that a rotating call rebalance(x) returns:
\* x now hangs under the new root of the rotated subtree; x, that root, its
\* other child and every ancestor have their heights right, and the new root
\* reads as balanced when the walk reaches it next.
RotationLeftRight(t, x) ==
    /\ Occupied(t, x) /\ Occupied(t, t.items[x].parent)
    /\ HeightStoredRight(t, x)
    /\ \A c \in {t.items[t.items[x].parent].left,
                 t.items[t.items[x].parent].right} \ {None} :
          HeightStoredRight(t, c)
    /\ \A a \in AncestorsFrom(t, t.items[x].parent, ItemsLen(t)) :
          HeightStoredRight(t, a)
    /\ Abs(balance_factor(t, t.items[x].parent)) <= 1

\* rebalance_ancestors(link) on tree t: every call of rebalance in it that
\* rotates returns a tree as (C16) asks.
RECURSIVE WalkLeavesRight(_, _)
WalkStepLeavesRight(t, returned, link) ==
    /\ RebalanceRotates(t, link) => RotationLeftRight(returned, link)
    /\ Occupied(returned, link) =>
          WalkLeavesRight(returned, returned.items[link].parent)

WalkLeavesRight(t, link) ==
    IF link = None \/ t.panic \/ ~Occupied(t, link) THEN TRUE
    ELSE WalkStepLeavesRight(t, rebalance(t, link), link)

\* The walk of insert(v) on tree t, when v goes below a closest node.
InsertWalkLeavesRight(t, v, closest) ==
    IF closest \in {None, Bad} THEN TRUE
    ELSE IF t.items[closest].value = v THEN TRUE
    ELSE WalkLeavesRight(
             insert_linked(insert_node(t, v, closest), closest,
                           cmp(v, t.items[closest].value)),
             closest)

\* The walk of remove_node(index) on tree t.
RemoveWalkLeavesRight(t, index, start) ==
    IF start = Bad THEN TRUE
    ELSE WalkLeavesRight(
             update_ancestor_heights(
                 remove_node_replaced(t, index, t.items[index]), start),
             start)

\* (C16) Whenever one call rebalance(node) rotates, single or double, then on
\* its return the rotated nodes and every ancestor have stored height 1 + max
\* of their children's stored heights and the new root of the rotated subtree
\* is balanced, so the same ancestor walk rotates there no more.
C16_RebalanceLeavesHeightsRight ==
    (phase = "tree" /\ ~tree.panic /\ HasRoom(tree, MaxSlots)) =>
        /\ \A v \in Values :
              InsertWalkLeavesRight(tree, v, find_closest(tree, v))
        /\ \A i \in Reach(tree) :
              RemoveWalkLeavesRight(tree, i,
                  remove_node_start(tree, i, tree.items[i]))

TwoChildren(t, i) == t.items[i].left # None /\ t.items[i].right # None

\* The nodes whose subtree is not what it was before node i was taken out of
\* the links (`replaced` is the tree after the replace_node calls).
RemovalChanged(t, replaced, i) ==
    {j \in Reach(replaced) :
        Subtree(t, j, ItemsLen(t)) # Subtree(replaced, j, ItemsLen(t))}

\* The walks of remove_node(i), i having two children and predecessor b,
\* start at `start` and visit every node whose subtree changed.
WalkCovers(t, i, start) ==
    /\ remove_node_start(t, i, t.items[i]) = start
    /\ RemovalChanged(t, remove_node_replaced(t, i, t.items[i]), i)
          \subseteq AncestorsFrom(remove_node_replaced(t, i, t.items[i]),
                                  start, ItemsLen(t))

\* The start of the walks as the code has it: the predecessor's original
\* parent when the predecessor lies deeper, the predecessor itself (which has
\* taken the target's place) when it was the target's left child.
StartAtPredecessor(t, i, b) ==
    IF b = t.items[i].left THEN b ELSE t.items[b].parent

\* The start of the walks as first stated: the predecessor's old left child
\* when the predecessor was the target's left child.
StartAtPredecessorsChild(t, i, b) ==
    IF b = t.items[i].left THEN t.items[b].left ELSE t.items[b].parent

\* (C17) as amended: when remove deletes a node with two children, the
\* height-update and rebalance walk starts from the predecessor's original
\* parent when the predecessor lies deeper than the target's left child, and
\* from the predecessor itself, now in the target's place, when it was the
\* target's left child; in both cases every node whose subtree changed is
\* visited.
C17_WalkStartsAtPredecessor ==
    ~tree.panic =>
        \A i \in Reach(tree) :
            TwoChildren(tree, i) =>
                /\ Occupied(tree, before_sub(tree, i))
                /\ WalkCovers(tree, i,
                       StartAtPredecessor(tree, i, before_sub(tree, i)))

\* (C17) as stated: ... and from the predecessor's old left child's position
\* when the predecessor was itself the target's direct left child.
C17_WalkStartsAtPredecessorsChild ==
    ~tree.panic =>
        \A i \in Reach(tree) :
            TwoChildren(tree, i) =>
                /\ Occupied(tree, before_sub(tree, i))
                /\ WalkCovers(tree, i,
                       StartAtPredecessorsChild(tree, i, before_sub(tree, i)))

\* A tree that has seen a removal holds a two-child node whose predecessor is
\* its left child and has no left child of its own, and another whose
\* predecessor lies deeper.
C17_Witness ==
    /\ ~tree.panic /\ n_rem >= 1
    /\ \E i \in Reach(tree) :
          /\ TwoChildren(tree, i)
          /\ before_sub(tree, i) = tree.items[i].left
          /\ tree.items[tree.items[i].left].left = None
    /\ \E i \in Reach(tree) :
          /\ TwoChildren(tree, i)
          /\ before_sub(tree, i) # tree.items[i].left

\* What a rotation at x may change, r being the tree it returns, y the child
\* that rises, t2 y's inner child, `down` the side of y on which x ends up
\* and `up` the side of x from which y came: y takes x's place under x's
\* former parent p (or as root), x hangs under y, t2 under x; every other
\* field of every slot, len and the free list are as they were, and so is the
\* in-order sequence.
RotationLocal(t, r, x, y, t2, p, down, up) ==
    /\ ~r.panic
    /\ InOrderAll(r) = InOrderAll(t)
    /\ r.items[y].parent = p
    /\ r.items[y][down] = x
    /\ r.items[x].parent = y
    /\ r.items[x][up] = t2
    /\ t2 # None => r.items[t2].parent = x
    /\ p = None => r.root = y
    /\ p # None =>
          /\ r.root = t.root
          /\ t.items[p].left = x =>
                r.items[p] = [t.items[p] EXCEPT !.left = y]
          /\ t.items[p].left # x =>
                r.items[p] = [t.items[p] EXCEPT !.right = y]
    /\ r.items[y] = [t.items[y] EXCEPT !.parent = p, ![down] = x]
    /\ r.items[x] = [t.items[x] EXCEPT !.parent = y, ![up] = t2]
    /\ t2 # None => r.items[t2] = [t.items[t2] EXCEPT !.parent = x]
    /\ DOMAIN r.items = DOMAIN t.items
    /\ \A j \in DOMAIN t.items \ {x, y, t2, p} : r.items[j] = t.items[j]
    /\ \A j \in OccupiedSlots(t) :
          /\ r.items[j].tag = "Occupied"
          /\ r.items[j].height = t.items[j].height
          /\ r.items[j].value = t.items[j].value
    /\ r.len = t.len /\ r.head_free = t.head_free /\ r.panic = t.panic

RotateRightLocal(t, x) ==
    IF t.items[x].left = None THEN rotate_right(t, x) = t
    ELSE RotationLocal(t, rotate_right(t, x), x, t.items[x].left,
                       t.items[t.items[x].left].right, t.items[x].parent,
                       "right", "left")

RotateLeftLocal(t, x) ==
    IF t.items[x].right = None THEN rotate_left(t, x) = t
    ELSE RotationLocal(t, rotate_left(t, x), x, t.items[x].right,
                       t.items[t.items[x].right].left, t.items[x].parent,
                       "left", "right")

\* (C18) rotate_right(x) and rotate_left(x) are local and keep the order: on
\* a node x with the required child y the in-order sequence is unchanged, y
\* takes x's place under x's former parent or as root, and only links of x,
\* y, t2 and that parent (and root) change: no other link, no height, no
\* value, neither len nor the free list.  With x or the required child absent
\* the call changes nothing.
C18_RotationsLocal ==
    ~tree.panic =>
        /\ rotate_right(tree, None) = tree
        /\ rotate_left(tree, None) = tree
        /\ \A x \in Reach(tree) :
              RotateRightLocal(tree, x) /\ RotateLeftLocal(tree, x)

\* A tree with a node x that has a parent, a left child y with a right child,
\* and a right child with a left child: both rotations at x touch all four
\* nodes.
C18_Witness ==
    /\ ~tree.panic
    /\ \E x \in Reach(tree) :
          /\ tree.items[x].parent # None
          /\ tree.items[x].left # None /\ tree.items[x].right # None
          /\ tree.items[tree.items[x].left].right # None
          /\ tree.items[tree.items[x].right].left # None
    /\ \E x \in Reach(tree) : tree.items[x].left = None

\* The invariants of the tree: order, balance, links, stored heights, count
\* and the partition of the slots.
TreeInvariants(t) ==
    /\ BstOrder(t) /\ Balanced(t) /\ LinksConsistent(t)
    /\ \A i \in Reach(t) : HeightStoredRight(t, i)
    /\ Reach(t) = OccupiedSlots(t)
    /\ t.len = Cardinality(Reach(t))
    /\ SeqRange(FreeList(t)) = FreeSlots(t)

\* Drop::drop has returned: nothing is left.
DropDone ==
    /\ phase = "dropped" /\ ~tree.panic
    /\ tree.root = None /\ tree.len = 0
    /\ \A i \in DOMAIN tree.items : tree.items[i].tag = "Free"

\* (C19) Dropping a tree in any reachable state terminates: the loop removes
\* the root again and again, each round takes len down by exactly one and
\* leaves a tree that satisfies the invariants, and it ends with root absent,
\* len 0 and every slot Free.
C19_DropTerminates ==
    /\ [][phase' = "drop" =>
            /\ ~tree'.panic /\ TreeInvariants(tree')
            /\ phase = "drop" =>
                  /\ tree.root # None
                  /\ tree'.len = tree.len - 1
                  /\ OccupiedSlots(tree') = OccupiedSlots(tree) \ {tree.root}]_vars
    /\ [][phase' = "dropped" => DropDone']_vars
    /\ (phase = "drop") ~> DropDone

\* A tree that filled every slot has been dropped.
C19_Witness == DropDone /\ ItemsLen(tree) >= 4 /\ Len(freed) >= 4

IsLeaf(t, i) == t.items[i].left = None /\ t.items[i].right = None

\* A sequence without the value v.
RECURSIVE SeqWithout(_, _)
SeqWithout(s, v) ==
    IF s = <<>> THEN <<>>
    ELSE IF Head(s) = v THEN SeqWithout(Tail(s), v)
    ELSE <<Head(s)>> \o SeqWithout(Tail(s), v)

\* The call replace_node(old, new) on tree t: when new is a child of old it
\* has no children of its own.
ChildReplacesChildless(t, old, new) ==
    (new # None /\ new \in {t.items[old].left, t.items[old].right}) =>
        IsLeaf(t, new)

\* The replace_node calls of remove_node(i) when i has two children and
\* predecessor b: (b, b.left) on t, then (i, b) on what the first call
\* returns.
SpliceCallsChildless(t, i, b) ==
    /\ Occupied(t, b)
    /\ ChildReplacesChildless(t, b, t.items[b].left)
    /\ ChildReplacesChildless(replace_node(t, b, t.items[b].left), i, b)

\* The replace_node calls of remove_node(i) on tree t.
RemoveCallsChildless(t, i) ==
    IF TwoChildren(t, i)
    THEN SpliceCallsChildless(t, i, before_sub(t, i))
    ELSE ChildReplacesChildless(t, i,
             IF t.items[i].left # None THEN t.items[i].left
             ELSE t.items[i].right)

\* remove_node(i) takes out the value of node i and nothing else.
RemoveLosesOnly(t, removed, i) ==
    /\ ~removed.t.panic
    /\ removed.value = t.items[i].value
    /\ InOrderAll(removed.t) = SeqWithout(InOrderAll(t), t.items[i].value)
    /\ Reach(removed.t) = Reach(t) \ {i}

\* (C20) Every time replace_node(old, Some(new)) is called with new a child
\* of old (removal of a node with one child, or splicing out the predecessor
\* in favour of its left child) new has no children of its own; so the
\* overwriting of new's other link discards no node, and remove loses no
\* element but the one requested.
C20_ReplaceDiscardsNothing ==
    ~tree.panic =>
        \A i \in Reach(tree) :
            /\ RemoveCallsChildless(tree, i)
            /\ RemoveLosesOnly(tree, remove_node(tree, i), i)

\* A tree holds a node with exactly one child and a two-child node whose
\* predecessor has a left child.
C20_Witness ==
    /\ ~tree.panic /\ phase = "tree"
    /\ \E i \in Reach(tree) : ~TwoChildren(tree, i) /\ ~IsLeaf(tree, i)
    /\ \E i \in Reach(tree) :
          /\ TwoChildren(tree, i)
          /\ tree.items[before_sub(tree, i)].left # None

====
